---------------------------- MODULE Spec2Model ----------------------------
(***************************************************************************)
(* The clinic REST API of server.js over the SQLite store of db.js.        *)
(*                                                                         *)
(* State: the tables patients, checkins, invoices, invoice_items and       *)
(* counters, the AUTOINCREMENT sequence of invoice_items, the wall clock   *)
(* that generateInvoiceRef reads, and the response of the last request.    *)
(* One action per route handler.  better-sqlite3 is synchronous and Node   *)
(* runs one handler at a time, so a handler is one atomic step; a handler  *)
(* that throws half way keeps the writes it made before the throw (only    *)
(* createInvoice runs in a transaction) and answers 500 from its catch.    *)
(*                                                                         *)
(* JavaScript values are tagged records, strings are sequences of          *)
(* characters, so that trim, ||, ??, parseFloat, String and padStart are   *)
(* computed as the code computes them.  Amounts are whole numbers, the     *)
(* two infinities and NaN.                                                 *)
(* The patient columns breed, colour, age, gender, email and address are   *)
(* handled by the code exactly as type and phone are and are left out; so  *)
(* are the free-text check-in columns other than complaint and the invoice *)
(* column notes (handled as method).  The list, search and statistics      *)
(* routes only read and are left out.                                      *)
(*                                                                         *)
(* Spec is one server process.  SpecShared is two server processes on the  *)
(* same database file, where the statements of two creates interleave.     *)
(***************************************************************************)
EXTENDS Integers, Sequences, FiniteSets

VARIABLES patients, checkins, invoices, invoice_items, item_seq, counters,
          now, resp, requests

store == <<patients, checkins, invoices, invoice_items, item_seq, counters>>
vars == <<patients, checkins, invoices, invoice_items, item_seq, counters,
          now, resp, requests>>

---------------------------------------------------------------------------
(* Bounds of the exploration.                                              *)

MaxPatients == 2
MaxCheckins == 2
MaxInvoices == 2

---------------------------------------------------------------------------
(* JavaScript values.                                                      *)

Undefined == [k |-> "undefined"]
Null == [k |-> "null"]
NaN == [k |-> "NaN"]
Infinity == [k |-> "Infinity"]
NegInfinity == [k |-> "-Infinity"]
Str(s) == [s |-> s]
Num(n) == [n |-> n]
Arr(a) == [a |-> a]

IsString(v) == DOMAIN v = {"s"}
IsNum(v) == DOMAIN v = {"n"}
IsArray(v) == DOMAIN v = {"a"}

\* Boolean(v): the falsy values are undefined, null, NaN, 0 and ''.
Truthy(v) ==
  \/ IsString(v) /\ v.s # <<>>
  \/ IsNum(v) /\ v.n # 0
  \/ v \in {Infinity, NegInfinity}

\* a || b
Or(a, b) == IF Truthy(a) THEN a ELSE b

\* a ?? b
Coalesce(a, b) == IF a \in {Undefined, Null} THEN b ELSE a

\* a != null (loose: neither null nor undefined)
NotNullish(a) == a \notin {Undefined, Null}

WhiteSpace == {" "}
Digits == <<"0", "1", "2", "3", "4", "5", "6", "7", "8", "9">>
IsDigit(c) == \E i \in 1..10 : Digits[i] = c
DigitValue(c) == (CHOOSE i \in 1..10 : Digits[i] = c) - 1

RECURSIVE TrimStart(_)
TrimStart(s) ==
  IF s # <<>> /\ Head(s) \in WhiteSpace THEN TrimStart(Tail(s)) ELSE s

RECURSIVE TrimEnd(_)
TrimEnd(s) ==
  IF s # <<>> /\ s[Len(s)] \in WhiteSpace
  THEN TrimEnd(SubSeq(s, 1, Len(s) - 1)) ELSE s

\* String.prototype.trim
Trim(s) == TrimEnd(TrimStart(s))

\* A presence test that forgets to trim.
NonBlankUntrimmed(v) == IsString(v) /\ v.s # <<>>

\* v?.trim() is truthy: v is a string that is not blank.  (undefined and
\* null short-circuit to undefined.)
NonBlank(v) == IsString(v) /\ Trim(v.s) # <<>>

\* The longest prefix of decimal digits of s.
RECURSIVE DigitPrefix(_)
DigitPrefix(s) ==
  IF s # <<>> /\ IsDigit(Head(s)) THEN <<Head(s)>> \o DigitPrefix(Tail(s))
  ELSE <<>>

RECURSIVE DigitsValue(_)
DigitsValue(s) ==
  IF s = <<>> THEN 0
  ELSE 10 * DigitsValue(SubSeq(s, 1, Len(s) - 1)) + DigitValue(s[Len(s)])

InfinityLiteral == <<"I", "n", "f", "i", "n", "i", "t", "y">>

\* parseFloat on whole numbers: leading white space is skipped, an optional
\* sign and then the word Infinity or the longest digit prefix are read,
\* anything else gives NaN.  A number argument is converted to a string
\* first and parses to itself.
ParseFloat(v) ==
  IF IsNum(v) THEN v
  ELSE IF ~IsString(v) THEN NaN
  ELSE LET t == TrimStart(v.s)
           neg == t # <<>> /\ Head(t) = "-"
           u == IF t # <<>> /\ Head(t) \in {"-", "+"} THEN Tail(t) ELSE t
           d == DigitPrefix(u)
       IN IF Len(u) >= 8 /\ SubSeq(u, 1, 8) = InfinityLiteral
          THEN IF neg THEN NegInfinity ELSE Infinity
          ELSE IF d = <<>> THEN NaN
          ELSE Num(IF neg THEN 0 - DigitsValue(d) ELSE DigitsValue(d))

\* String(n) for a natural number n.
RECURSIVE NumberToString(_)
NumberToString(n) ==
  IF n < 10 THEN <<Digits[n + 1]>>
  ELSE NumberToString(n \div 10) \o <<Digits[(n % 10) + 1]>>

\* s.padStart(len, ch)
RECURSIVE PadStart(_, _, _)
PadStart(s, len, ch) ==
  IF Len(s) >= len THEN s ELSE PadStart(<<ch>> \o s, len, ch)

\* ToNumber as the arithmetic operators apply it to a column value: null is
\* 0, a number or an infinity is itself, anything else is NaN.
ToNumber(v) ==
  IF v = Null THEN Num(0)
  ELSE IF IsNum(v) \/ v \in {Infinity, NegInfinity} THEN v
  ELSE NaN

\* The sign of a number or an infinity.
Sign(x) ==
  IF x = Infinity THEN 1
  ELSE IF x = NegInfinity THEN 0 - 1
  ELSE IF x.n > 0 THEN 1 ELSE IF x.n < 0 THEN 0 - 1 ELSE 0

Negate(x) ==
  IF x = NaN THEN NaN
  ELSE IF x = Infinity THEN NegInfinity
  ELSE IF x = NegInfinity THEN Infinity
  ELSE Num(0 - x.n)

\* a + b, a - b, a * b in IEEE arithmetic on whole numbers: NaN is
\* contagious, Infinity - Infinity and Infinity * 0 are NaN.
Plus(a, b) ==
  LET x == ToNumber(a) y == ToNumber(b)
  IN IF x = NaN \/ y = NaN THEN NaN
     ELSE IF IsNum(x) /\ IsNum(y) THEN Num(x.n + y.n)
     ELSE IF IsNum(x) THEN y
     ELSE IF IsNum(y) \/ x = y THEN x
     ELSE NaN

Minus(a, b) == Plus(a, Negate(ToNumber(b)))

Times(a, b) ==
  LET x == ToNumber(a) y == ToNumber(b)
  IN IF x = NaN \/ y = NaN THEN NaN
     ELSE IF IsNum(x) /\ IsNum(y) THEN Num(x.n * y.n)
     ELSE IF Sign(x) * Sign(y) = 0 THEN NaN
     ELSE IF Sign(x) * Sign(y) > 0 THEN Infinity ELSE NegInfinity

\* Math.max(0, x)
Max0(x) ==
  IF x = Infinity THEN Infinity
  ELSE IF x = NegInfinity THEN Num(0)
  ELSE IF ~IsNum(x) THEN NaN ELSE IF x.n > 0 THEN x ELSE Num(0)

\* What SQLite stores for a bound value: NaN is stored as NULL.
Bind(v) == IF v = NaN THEN Null ELSE v

\* better-sqlite3 refuses to bind undefined.
Bindable(v) == v # Undefined

---------------------------------------------------------------------------
(* Responses: ok(res, data) answers 200 {success: true, data} and          *)
(* err(res, msg, status = 400) answers status {success: false, error: msg}.*)
(* The response is modelled by its status and its success flag.            *)

ok == [status |-> 200, success |-> TRUE]
err(status) == [status |-> status, success |-> FALSE]
BadRequest == err(400)
NotFound == err(404)
\* The catch of every handler: err(res, e.message, 500).
Fault == err(500)

\* The faults better-sqlite3 throws inside createInvoice ("": none).
CannotBind ==
  "SQLite3 can only bind numbers, strings, bigints, buffers, and null"
UniqueInvoiceRef == "UNIQUE constraint failed: invoices.ref"
NotNullItemName == "NOT NULL constraint failed: invoice_items.name"
ForeignKeyFailed == "FOREIGN KEY constraint failed"

---------------------------------------------------------------------------
(* Counters and identifiers.                                               *)

\* The value nextCounter(key) returns, and the counters it leaves.
nextCounterValue(key) == counters[key]
\* A nextCounter whose UPDATE is lost.
nextCounterStale(key) == counters

nextCounterStore(key) == [counters EXCEPT ![key] = @ + 1]

generatePatientId(n) ==
  <<"P", "a", "C", "P", "C", "-">> \o PadStart(NumberToString(n), 5, "0")

\* String(year).slice(2) and String(month + 1).padStart(2, '0')
generateInvoiceRef(date, n) ==
  LET y == NumberToString(date.year)
      yy == SubSeq(y, 3, Len(y))
      mm == PadStart(NumberToString(date.month + 1), 2, "0")
  IN <<"I", "N", ":", "0", "1", "-">> \o yy \o mm \o <<"-">>
       \o PadStart(NumberToString(n), 4, "0")

---------------------------------------------------------------------------
(* Prepared statements of db.js.                                           *)

\* The number of ? markers of patientQueries.getById.
GetByIdParameters == 2

\* CAST(v AS TEXT) of a column value that is not NULL.
CastText(v) == IF IsNum(v) THEN NumberToString(v.n) ELSE v.s

\* patientQueries.getById.get(args...): the rows
\*   WHERE id = ? OR CAST(patient_id AS TEXT) = ?
\* (the first of them is returned; none is undefined).  A comparison with
\* NULL is not true.  The statement throws unless it is given as many values
\* as it has markers.
getByIdThrows(args) == Len(args) # GetByIdParameters
getByIdRows(args) ==
  {p \in patients :
     \/ p.id = Str(args[1])
     \/ /\ Len(args) >= 2
        /\ p.patient_id # Null
        /\ CastText(p.patient_id) = args[2]}

\* checkinQueries.getById and invoiceQueries.getById / getItems
checkinById(id) == {c \in checkins : c.id = Str(id)}
invoiceById(ref) == {i \in invoices : i.ref = Str(ref)}
getItems(ref) == {it \in invoice_items : it.invoice_ref = Str(ref)}

\* DELETE FROM patients WHERE id = ?, with the referential actions of the
\* schema: checkins.patient_id ON DELETE CASCADE, invoices.patient_id
\* ON DELETE SET NULL.
patientsAfterDelete(id) == {p \in patients : p.id # Str(id)}
checkinsAfterPatientDelete(id) ==
  IF \E p \in patients : p.id = Str(id)
  THEN {c \in checkins : c.patient_id # Str(id)}
  ELSE checkins
invoicesAfterPatientDelete(id) ==
  IF \E p \in patients : p.id = Str(id)
  THEN {IF i.patient_id = Str(id) THEN [i EXCEPT !.patient_id = Null] ELSE i :
          i \in invoices}
  ELSE invoices

\* REFERENCES patients(id) with foreign_keys = ON: a patient_id that is not
\* NULL must be the id of a stored patient.
ForeignKeyOk(patient_id) ==
  patient_id = Null \/ \E p \in patients : p.id = patient_id

---------------------------------------------------------------------------
(* The workload explored: a run fills one table up to its bound, or holds  *)
(* at most one row of each.  p, i: rows ever created in patients and       *)
(* invoices (the counters); c: the check-ins stored.                       *)

PatientCounterStart == 10000
InvoiceCounterStart == 1

WithinBounds(p, c, i) ==
  \/ p <= MaxPatients /\ c = 0 /\ i = 0
  \/ p = 0 /\ c <= MaxCheckins /\ i = 0
  \/ p = 0 /\ c = 0 /\ i <= MaxInvoices
  \/ p <= 1 /\ c <= 1 /\ i <= 1

Created(key) ==
  counters[key]
    - (IF key = "patient" THEN PatientCounterStart ELSE InvoiceCounterStart)

---------------------------------------------------------------------------
(* Requests.                                                               *)

PatientBody(name, owner_name, type, weight, phone) ==
  [name |-> name, owner_name |-> owner_name, type |-> type,
   weight |-> weight, phone |-> phone]

PostPatientBodies ==
  { PatientBody(Str(<<" ">>), Str(<<"A">>), Undefined, Undefined, Undefined),
    PatientBody(Undefined, Str(<<"A">>), Undefined, Undefined, Undefined),
    PatientBody(Str(<<"R">>), Str(<<>>), Undefined, Undefined, Undefined),
    PatientBody(Str(<<" ", "R", " ">>), Str(<<"A", " ">>), Str(<<"C">>),
                Str(<<"4">>), Str(<<"5">>)),
    PatientBody(Str(<<"R">>), Str(<<"A">>), Undefined, Undefined, Undefined) }

PutPatientBodies ==
  { PatientBody(Undefined, Undefined, Str(<<"F">>), Undefined, Undefined),
    PatientBody(Str(<<>>), Undefined, Undefined, Str(<<"x">>), Null),
    PatientBody(Str(<<"T">>), Undefined, Undefined, Undefined, Undefined) }

\* The ids a request may name: those stored and one that is not.
NoSuchId == <<"n", "o", "n", "e">>
PatientIds == {p.id.s : p \in patients} \cup {NoSuchId}

---------------------------------------------------------------------------
(* Patients.                                                               *)

\* GET /api/patients/:id
GetPatient(id) ==
  /\ resp' = IF getByIdThrows(<<id, id>>) THEN Fault
             ELSE IF getByIdRows(<<id, id>>) = {}
             THEN NotFound
             ELSE ok
  /\ UNCHANGED <<store, now>>

\* The object POST /api/patients inserts.
NewPatient(id, body) ==
  [id |-> Str(id),
   patient_id |-> Null,
   name |-> Str(Trim(body.name.s)),
   type |-> Bind(Or(body.type, Null)),
   weight |-> Bind(IF Truthy(body.weight) THEN ParseFloat(body.weight)
                   ELSE Null),
   owner_name |-> Str(Trim(body.owner_name.s)),
   phone |-> Bind(Or(body.phone, Null))]

\* POST /api/patients
PostPatient(body) ==
  /\ WithinBounds(Created("patient") + 1, Cardinality(checkins),
                  Created("invoice"))
  /\ IF ~NonBlank(body.name)
     THEN resp' = BadRequest /\ UNCHANGED store
     ELSE IF ~NonBlank(body.owner_name)
     THEN resp' = BadRequest /\ UNCHANGED store
     ELSE LET id == generatePatientId(nextCounterValue("patient"))
              patient == NewPatient(id, body)
          IN /\ counters' = nextCounterStore("patient")
             /\ IF \E p \in patients : p.id = patient.id
                THEN /\ patients' = patients
                     /\ resp' = Fault
                ELSE /\ patients' = patients \cup {patient}
                     \* patientQueries.getById.get(patient.id)
                     /\ resp' = IF getByIdThrows(<<id>>)
                                THEN Fault
                                ELSE ok
             /\ UNCHANGED <<checkins, invoices, invoice_items, item_seq>>
  /\ UNCHANGED now

\* The row patientQueries.update writes over existing.
UpdatedPatient(existing, body) ==
  [existing EXCEPT
     !.name = Bind(Or(body.name, existing.name)),
     !.type = Bind(Coalesce(body.type, existing.type)),
     !.weight = Bind(IF NotNullish(body.weight) THEN ParseFloat(body.weight)
                     ELSE existing.weight),
     !.owner_name = Bind(Or(body.owner_name, existing.owner_name)),
     !.phone = Bind(Coalesce(body.phone, existing.phone))]

\* A PUT that also writes the patient's name and owner onto the check-ins
\* and invoices, with the WHERE clause of the two extra UPDATEs forgotten.
PutPatientSyncing(id, body) ==
  /\ IF getByIdRows(<<id, id>>) = {}
     THEN resp' = NotFound /\ UNCHANGED store
     ELSE LET existing == CHOOSE p \in getByIdRows(<<id, id>>) : TRUE
              updated == UpdatedPatient(existing, body)
          IN /\ patients' = {IF p.id = Str(id) THEN updated ELSE p :
                               p \in patients}
             /\ checkins' = {[c EXCEPT !.patient_name = updated.name,
                                       !.owner_name = updated.owner_name] :
                               c \in checkins}
             /\ invoices' = {[i EXCEPT !.patient_name = updated.name] :
                               i \in invoices}
             /\ resp' = Fault
             /\ UNCHANGED <<invoice_items, item_seq, counters>>
  /\ UNCHANGED now

\* PUT /api/patients/:id
PutPatient(id, body) ==
  /\ IF getByIdThrows(<<id, id>>)
     THEN resp' = Fault /\ UNCHANGED store
     ELSE IF getByIdRows(<<id, id>>) = {}
     THEN resp' = NotFound /\ UNCHANGED store
     ELSE LET existing == CHOOSE p \in getByIdRows(<<id, id>>) : TRUE
              updated(p) == [UpdatedPatient(existing, body) EXCEPT
                               !.id = p.id, !.patient_id = p.patient_id]
          IN \* UPDATE patients SET ... WHERE id = @id
             /\ patients' = {IF p.id = Str(id) THEN updated(p) ELSE p :
                               p \in patients}
             \* patientQueries.getById.get(req.params.id)
             /\ resp' = IF getByIdThrows(<<id>>)
                        THEN Fault
                        ELSE ok
             /\ UNCHANGED <<checkins, invoices, invoice_items, item_seq,
                            counters>>
  /\ UNCHANGED now

\* DELETE /api/patients/:id
DeletePatient(id) ==
  /\ IF getByIdThrows(<<id>>)
     THEN resp' = Fault /\ UNCHANGED store
     ELSE IF getByIdRows(<<id>>) = {}
     THEN resp' = NotFound /\ UNCHANGED store
     ELSE /\ patients' = patientsAfterDelete(id)
          /\ checkins' = checkinsAfterPatientDelete(id)
          /\ invoices' = invoicesAfterPatientDelete(id)
          /\ resp' = ok
          /\ UNCHANGED <<invoice_items, item_seq, counters>>
  /\ UNCHANGED now


---------------------------------------------------------------------------
(* Check-ins.                                                              *)

CheckinBody(patient_id, doctor, date, patient_name, owner_name, complaint) ==
  [patient_id |-> patient_id, doctor |-> doctor, date |-> date,
   patient_name |-> patient_name, owner_name |-> owner_name,
   complaint |-> complaint]

ADate == Str(<<"d">>)

\* The bodies without a patient_id.
PlainCheckinBodies ==
  { CheckinBody(Undefined, Str(<<" ">>), ADate, Undefined, Undefined,
                Undefined),
    CheckinBody(Undefined, Str(<<"D">>), Undefined, Undefined, Undefined,
                Undefined),
    CheckinBody(Undefined, Str(<<" ", "D">>), ADate, Str(<<"Q">>),
                Undefined, Str(<<"c">>)) }

\* The bodies that name a patient (stored or not) and supply names of their
\* own.
PatientCheckinBodies ==
  { CheckinBody(Str(id), Str(<<"D">>), ADate, Str(<<"Q">>), Str(<<"O">>),
                Undefined) : id \in PatientIds }

PostCheckinBodies == PlainCheckinBodies \cup PatientCheckinBodies

\* 'CI-' + Date.now() + '-' + Math.random().toString(36).slice(2, 6): some
\* identifier, not necessarily a fresh one.
NewCheckinIds ==
  {<<"C", "I", "-">> \o NumberToString(n) : n \in 1..MaxCheckins}

CheckinIds == {c.id.s : c \in checkins} \cup {NoSuchId}

CheckinStatuses == {Str(<<"o", "p", "e", "n">>), Str(<<"d", "o", "n", "e">>)}
PatchCheckinBodies == CheckinStatuses \cup {Undefined, Str(<<"x">>)}

\* GET /api/checkins/:id
GetCheckin(id) ==
  /\ resp' = IF checkinById(id) = {} THEN NotFound
             ELSE ok
  /\ UNCHANGED <<store, now>>

\* The object POST /api/checkins inserts; pat is the set of rows the lookup
\* of the patient gave (empty when there was no lookup).
NewCheckin(id, body, pat) ==
  LET found == pat # {}
      p == CHOOSE x \in pat : TRUE
  IN [id |-> Str(id),
      patient_id |-> Bind(Or(body.patient_id, Null)),
      patient_name |-> IF found THEN p.name
                       ELSE Bind(Or(body.patient_name, Str(<<>>))),
      owner_name |-> IF found THEN p.owner_name
                     ELSE Bind(Or(body.owner_name, Str(<<>>))),
      doctor |-> Str(Trim(body.doctor.s)),
      date |-> body.date,
      complaint |-> Bind(Or(body.complaint, Null)),
      status |-> Str(<<"o", "p", "e", "n">>)]

\* POST /api/checkins
PostCheckin(body, id) ==
  /\ WithinBounds(Created("patient"), Cardinality(checkins) + 1,
                  Created("invoice"))
  /\ IF ~NonBlank(body.doctor)
     THEN resp' = BadRequest /\ checkins' = checkins
     ELSE IF ~Truthy(body.date)
     THEN resp' = BadRequest /\ checkins' = checkins
     \* patientQueries.getById.get(patient_id)
     ELSE IF Truthy(body.patient_id) /\ getByIdThrows(<<body.patient_id.s>>)
     THEN resp' = Fault /\ checkins' = checkins
     ELSE LET pat == IF Truthy(body.patient_id)
                     THEN getByIdRows(<<body.patient_id.s>>) ELSE {}
              checkin == NewCheckin(id, body, pat)
          IN \* checkinQueries.insert.run(checkin)
             IF \/ \E c \in checkins : c.id = checkin.id
                \/ ~ForeignKeyOk(checkin.patient_id)
             THEN resp' = Fault /\ checkins' = checkins
             ELSE resp' = ok /\ checkins' = checkins \cup {checkin}
  /\ UNCHANGED <<patients, invoices, invoice_items, item_seq, counters, now>>

\* PATCH /api/checkins/:id/status
PatchCheckinStatus(id, status) ==
  /\ IF status \notin CheckinStatuses
     THEN resp' = BadRequest /\ checkins' = checkins
     ELSE \* UPDATE checkins SET status = ? WHERE id = ?
          /\ checkins' = {IF c.id = Str(id) THEN [c EXCEPT !.status = status]
                          ELSE c : c \in checkins}
          \* ok(res, checkinQueries.getById.get(req.params.id)), a row or
          \* undefined
          /\ resp' = ok
  /\ UNCHANGED <<patients, invoices, invoice_items, item_seq, counters, now>>

\* DELETE /api/checkins/:id
DeleteCheckin(id) ==
  /\ checkins' = {c \in checkins : c.id # Str(id)}
  /\ resp' = ok
  /\ UNCHANGED <<patients, invoices, invoice_items, item_seq, counters, now>>


---------------------------------------------------------------------------
(* Invoices.                                                               *)

Item(name, quantity, unit_price, discount) ==
  [name |-> name, quantity |-> quantity, unit_price |-> unit_price,
   discount |-> discount]

InvoiceBody(patient_id, owner_name, date, items, paid_amount, status) ==
  [patient_id |-> patient_id, owner_name |-> owner_name, date |-> date,
   items |-> items, patient_name |-> Str(<<"Q">>),
   patient_type |-> Undefined, phone |-> Str(<<"9">>),
   paid_amount |-> paid_amount, method |-> Undefined, status |-> status]

\* The line items of the example: (2, 100, 10) and (1, 50, 0).
ExampleItems ==
  Arr(<<Item(Str(<<"X">>), Num(2), Num(100), Num(10)),
        Item(Str(<<"Y">>), Num(1), Num(50), Num(0))>>)

\* One line whose discount exceeds quantity * unit_price: quantity 0 (read
\* as 1), no unit price, discount '10'.
DiscountedItems ==
  Arr(<<Item(Str(<<"Z">>), Num(0), Undefined, Str(<<"1", "0">>))>>)

\* One line with quantity 'Infinity' and no unit price.
InfiniteItems ==
  Arr(<<Item(Str(<<"W">>), Str(InfinityLiteral), Undefined, Undefined)>>)

\* A second line without a name.
NamelessItems ==
  Arr(<<Item(Str(<<"X">>), Num(1), Num(50), Num(0)),
        Item(Null, Num(1), Num(50), Num(0))>>)

Paid == Str(<<"P", "a", "i", "d">>)
Draft == Str(<<"D", "r", "a", "f", "t">>)
Outstanding ==
  Str(<<"O", "u", "t", "s", "t", "a", "n", "d", "i", "n", "g">>)
Void == Str(<<"V", "o", "i", "d">>)
Owner == Str(<<" ", "O">>)

PlainInvoiceBodies ==
  { InvoiceBody(Undefined, Str(<<" ">>), ADate, ExampleItems, Undefined,
                Undefined),
    InvoiceBody(Undefined, Owner, Undefined, ExampleItems, Undefined,
                Undefined),
    InvoiceBody(Undefined, Owner, ADate, Arr(<<>>), Undefined, Undefined),
    InvoiceBody(Undefined, Owner, ADate, Undefined, Undefined, Undefined),
    InvoiceBody(Undefined, Owner, ADate, ExampleItems, Str(<<"5", "0">>),
                Undefined),
    InvoiceBody(Undefined, Owner, ADate, DiscountedItems, Undefined, Void),
    InvoiceBody(Undefined, Owner, ADate, NamelessItems, Undefined,
                Undefined),
    InvoiceBody(Undefined, Owner, ADate, InfiniteItems, Undefined,
                Undefined) }

PatientInvoiceBodies ==
  { InvoiceBody(Str(id), Owner, ADate, ExampleItems, Undefined, Undefined) :
      id \in PatientIds }

PostInvoiceBodies == PlainInvoiceBodies \cup PatientInvoiceBodies

PatchInvoiceBody(status, paid_amount) ==
  [status |-> status, paid_amount |-> paid_amount]

PatchInvoiceBodies ==
  { PatchInvoiceBody(Paid, Num(50)),
    PatchInvoiceBody(Draft, Str(<<"5", "0">>)),
    PatchInvoiceBody(Outstanding, Num(50)),
    PatchInvoiceBody(Outstanding, Undefined),
    PatchInvoiceBody(Undefined, Str(<<"a", "b", "c">>)) }

InvoiceRefs == {i.ref.s : i \in invoices} \cup {NoSuchId}

\* items.map(...): the line items as the handler computes them.
LineItem(item) ==
  LET quantity == Or(ParseFloat(item.quantity), Num(1))
      unit_price == Or(ParseFloat(item.unit_price), Num(0))
      discount == Or(ParseFloat(item.discount), Num(0))
  IN [name |-> item.name, quantity |-> quantity, unit_price |-> unit_price,
      discount |-> discount,
      total |-> Minus(Times(quantity, unit_price), discount)]

LineItems(items) == [j \in 1..Len(items) |-> LineItem(items[j])]

\* lineItems.reduce((s, i) => s + i.quantity * i.unit_price, 0) and
\* lineItems.reduce((s, i) => s + i.discount, 0)
RECURSIVE Subtotal(_)
Subtotal(lineItems) ==
  IF lineItems = <<>> THEN Num(0)
  ELSE LET last == lineItems[Len(lineItems)]
       IN Plus(Subtotal(SubSeq(lineItems, 1, Len(lineItems) - 1)),
               Times(last.quantity, last.unit_price))

RECURSIVE Discount(_)
Discount(lineItems) ==
  IF lineItems = <<>> THEN Num(0)
  ELSE Plus(Discount(SubSeq(lineItems, 1, Len(lineItems) - 1)),
            lineItems[Len(lineItems)].discount)

\* The object POST /api/invoices hands to createInvoice; pat is the set of
\* rows the lookup of the patient gave (empty when there was no lookup).
NewInvoice(ref, body, pat) ==
  LET found == pat # {}
      p == CHOOSE x \in pat : TRUE
      lineItems == LineItems(body.items.a)
      subtotal == Subtotal(lineItems)
      discount == Discount(lineItems)
      total == Minus(subtotal, discount)
      paid_amount == Or(ParseFloat(body.paid_amount), Num(0))
  IN [ref |-> Str(ref),
      patient_id |-> Or(body.patient_id, Null),
      patient_name |-> IF found THEN p.name
                       ELSE Or(body.patient_name, Str(<<>>)),
      patient_type |-> IF found THEN Or(p.type, Str(<<>>))
                       ELSE Or(body.patient_type, Str(<<>>)),
      owner_name |-> Str(Trim(body.owner_name.s)),
      phone |-> IF found THEN Or(p.phone, Str(<<>>))
                ELSE Or(body.phone, Str(<<>>)),
      date |-> body.date,
      subtotal |-> subtotal,
      discount |-> discount,
      total |-> total,
      paid_amount |-> paid_amount,
      balance |-> Max0(Minus(total, paid_amount)),
      method |-> Or(body.method, Null),
      status |-> Or(body.status, Draft)]

\* The row invoiceQueries.insertItem writes for the j-th line item: the
\* AUTOINCREMENT id continues the table's sequence.
ItemRow(inv, lineItems, j) ==
  [id |-> item_seq + j,
   invoice_ref |-> inv.ref,
   name |-> lineItems[j].name,
   quantity |-> Bind(lineItems[j].quantity),
   unit_price |-> Bind(lineItems[j].unit_price),
   discount |-> Bind(lineItems[j].discount),
   total |-> Bind(lineItems[j].total)]

\* The fault of the header insert, "" when it succeeds.
InsertInvoiceFault(inv) ==
  IF \E i \in invoices : i.ref = inv.ref THEN UniqueInvoiceRef
  ELSE IF ~ForeignKeyOk(inv.patient_id) THEN ForeignKeyFailed
  ELSE ""

\* The fault of one item insert, "" when it succeeds.
InsertItemFault(item) ==
  IF ~Bindable(item.name) THEN CannotBind
  ELSE IF item.name = Null THEN NotNullItemName
  ELSE ""

\* The statements createInvoice runs before it stops: 0 when the header
\* insert throws, 1 + j when the j-th item insert throws, and all of them,
\* 1 + Len(lineItems), when none throws.
StatementsRun(inv, lineItems) ==
  IF InsertInvoiceFault(inv) # "" THEN 0
  ELSE IF \E j \in 1..Len(lineItems) : InsertItemFault(lineItems[j]) # ""
  THEN CHOOSE j \in 1..Len(lineItems) :
         /\ InsertItemFault(lineItems[j]) # ""
         /\ \A h \in 1..(j - 1) : InsertItemFault(lineItems[h]) = ""
  ELSE 1 + Len(lineItems)

CreateInvoiceFault(inv, lineItems) ==
  LET n == StatementsRun(inv, lineItems)
  IN IF n = 0 THEN InsertInvoiceFault(inv)
     ELSE IF n <= Len(lineItems) THEN InsertItemFault(lineItems[n])
     ELSE ""

\* The same statements run outside a transaction: the writes made before
\* the statement that throws stay.
createInvoiceUnwrapped(inv, lineItems) ==
  LET n == StatementsRun(inv, lineItems)
      fault == CreateInvoiceFault(inv, lineItems)
      written == IF fault = "" THEN Len(lineItems) ELSE IF n = 0 THEN 0
                 ELSE n - 1
  IN [fault |-> fault,
      invoices |-> IF n = 0 THEN invoices
                   ELSE invoices \cup {[k \in DOMAIN inv |-> Bind(inv[k])]},
      invoice_items |->
        invoice_items \cup {ItemRow(inv, lineItems, j) : j \in 1..written},
      item_seq |-> item_seq + written]

\* createInvoice = db.transaction(...): what the store holds once it has
\* returned or thrown.  The transaction commits when no statement throws
\* and rolls back every write otherwise.
createInvoice(inv, lineItems) ==
  LET fault == CreateInvoiceFault(inv, lineItems)
      committed == fault = ""
  IN [fault |-> fault,
      invoices |-> IF committed THEN invoices \cup {[k \in DOMAIN inv |->
                                                       Bind(inv[k])]}
                   ELSE invoices,
      invoice_items |->
        IF committed
        THEN invoice_items \cup
               {ItemRow(inv, lineItems, j) : j \in 1..Len(lineItems)}
        ELSE invoice_items,
      item_seq |-> IF committed THEN item_seq + Len(lineItems) ELSE item_seq]

\* GET /api/invoices/:ref
GetInvoice(ref) ==
  /\ resp' = IF invoiceById(ref) = {} THEN NotFound
             ELSE ok
  /\ UNCHANGED <<store, now>>

\* POST /api/invoices
PostInvoice(body) ==
  /\ WithinBounds(Created("patient"), Cardinality(checkins),
                  Created("invoice") + 1)
  /\ IF ~NonBlank(body.owner_name)
     THEN resp' = BadRequest /\ UNCHANGED store
     ELSE IF ~Truthy(body.date)
     THEN resp' = BadRequest /\ UNCHANGED store
     ELSE IF ~(IsArray(body.items) /\ Len(body.items.a) # 0)
     THEN resp' = BadRequest
          /\ UNCHANGED store
     \* patientQueries.getById.get(patient_id)
     ELSE IF Truthy(body.patient_id) /\ getByIdThrows(<<body.patient_id.s>>)
     THEN resp' = Fault /\ UNCHANGED store
     ELSE LET pat == IF Truthy(body.patient_id)
                     THEN getByIdRows(<<body.patient_id.s>>) ELSE {}
              ref == generateInvoiceRef(now, nextCounterValue("invoice"))
              inv == NewInvoice(ref, body, pat)
              saved == createInvoice(inv, LineItems(body.items.a))
          IN /\ counters' = nextCounterStore("invoice")
             /\ invoices' = saved.invoices
             /\ invoice_items' = saved.invoice_items
             /\ item_seq' = saved.item_seq
             /\ resp' = IF saved.fault # "" THEN Fault
                        ELSE ok
             /\ UNCHANGED <<patients, checkins>>
  /\ UNCHANGED now

\* A PATCH that writes the submitted status and amount as they come,
\* without the Draft and Paid overrides.
PatchedInvoiceAsSubmitted(inv, body) ==
  LET status == Or(body.status, inv.status)
      paid_amount == IF NotNullish(body.paid_amount)
                     THEN ParseFloat(body.paid_amount) ELSE inv.paid_amount
  IN [inv EXCEPT !.status = status, !.paid_amount = Bind(paid_amount),
                 !.balance = Bind(Max0(Minus(inv.total, paid_amount)))]

\* The status, paid_amount and balance PATCH /api/invoices/:ref/status
\* writes over inv.
PatchedInvoice(inv, body) ==
  LET status == Or(body.status, inv.status)
      paid_amount == IF NotNullish(body.paid_amount)
                     THEN ParseFloat(body.paid_amount) ELSE inv.paid_amount
      balance == Max0(Minus(inv.total, paid_amount))
  IN IF status = Draft
     THEN [inv EXCEPT !.status = status, !.paid_amount = Num(0),
                      !.balance = Bind(inv.total)]
     ELSE IF status = Paid
     THEN [inv EXCEPT !.status = status, !.paid_amount = Bind(inv.total),
                      !.balance = Num(0)]
     ELSE [inv EXCEPT !.status = status, !.paid_amount = Bind(paid_amount),
                      !.balance = Bind(balance)]

\* PATCH /api/invoices/:ref/status
PatchInvoiceStatus(ref, body) ==
  /\ IF invoiceById(ref) = {}
     THEN resp' = NotFound /\ invoices' = invoices
     ELSE LET inv == CHOOSE i \in invoiceById(ref) : TRUE
              updated == PatchedInvoice(inv, body)
          IN /\ invoices' = (invoices \ {inv}) \cup {updated}
             /\ resp' = ok
  /\ UNCHANGED <<patients, checkins, invoice_items, item_seq, counters, now>>

\* A delete of the header alone, as with foreign keys left off.
DeleteInvoiceOrphaning(ref) ==
  /\ invoices' = {i \in invoices : i.ref # Str(ref)}
  /\ resp' = ok
  /\ UNCHANGED <<patients, checkins, invoice_items, item_seq, counters, now>>

\* DELETE /api/invoices/:ref; invoice_items.invoice_ref is ON DELETE CASCADE.
DeleteInvoice(ref) ==
  /\ invoices' = {i \in invoices : i.ref # Str(ref)}
  /\ invoice_items' = {it \in invoice_items : it.invoice_ref # Str(ref)}
  /\ resp' = ok
  /\ UNCHANGED <<patients, checkins, item_seq, counters, now>>

---------------------------------------------------------------------------
(* The clock generateInvoiceRef reads.                                     *)

\* The months the clock passes through (getMonth() counts from 0).
Calendar == <<[year |-> 2024, month |-> 11], [year |-> 2025, month |-> 0]>>

Elapsed == CHOOSE j \in 1..Len(Calendar) : Calendar[j] = now

Tick ==
  /\ Elapsed < Len(Calendar)
  /\ now' = Calendar[Elapsed + 1]
  /\ UNCHANGED <<store, resp>>

---------------------------------------------------------------------------
(* Two server processes on one clinic.db (two `node server.js` with        *)
(* different PORT values).  Inside one process a handler runs to           *)
(* completion; across processes the statements of two handlers interleave, *)
(* each statement being atomic in SQLite.  requests[s] is the create that  *)
(* server s is running: the statement it runs next, the counter key it     *)
(* asked nextCounter for, and val, the value nextCounter read for it (kept *)
(* after the request has been answered, 0 before the read).                *)

Servers == {"a", "b"}

Idle == [pc |-> "idle", key |-> "", val |-> 0]

\* The creates still to take a value from the counter of key.
Reading(key) ==
  {s \in Servers : requests[s].key = key /\ requests[s].pc \in {"read", "update"}}

\* The bodies the two servers are sent.
SharedPatientBody ==
  PatientBody(Str(<<"R">>), Str(<<"A">>), Undefined, Undefined, Undefined)
SharedInvoiceBody ==
  InvoiceBody(Undefined, Owner, ADate, ExampleItems, Undefined, Undefined)

\* POST /api/patients or POST /api/invoices reaches server s with a body
\* that passes validation: the handler is about to call nextCounter(key).
Arrive(s, key) ==
  /\ requests[s].pc = "idle"
  /\ Created(key) + Cardinality(Reading(key))
       < (IF key = "patient" THEN MaxPatients ELSE MaxInvoices)
  /\ requests' = [requests EXCEPT ![s] = [pc |-> "read", key |-> key,
                                          val |-> 0]]
  /\ UNCHANGED <<store, now, resp>>

\* A read that takes the value and moves the counter on in one statement.
ReadCounterReserving(s) ==
  /\ requests[s].pc = "read"
  /\ requests' = [requests EXCEPT ![s].pc = "update",
                                  ![s].val = counters[requests[s].key]]
  /\ counters' = nextCounterStore(requests[s].key)
  /\ UNCHANGED <<patients, checkins, invoices, invoice_items, item_seq, now,
                 resp>>

\* nextCounter: SELECT value FROM counters WHERE key = ?; val = row.value
ReadCounter(s) ==
  /\ requests[s].pc = "read"
  /\ requests' = [requests EXCEPT
                    ![s].pc = "update",
                    ![s].val = nextCounterValue(requests[s].key)]
  /\ UNCHANGED <<store, now, resp>>

\* nextCounter: UPDATE counters SET value = value + 1 WHERE key = ?
IncrementCounter(s) ==
  /\ requests[s].pc = "update"
  /\ counters' = nextCounterStore(requests[s].key)
  /\ requests' = [requests EXCEPT ![s].pc = "insert"]
  /\ UNCHANGED <<patients, checkins, invoices, invoice_items, item_seq, now,
                 resp>>

\* The rest of POST /api/patients on server s: the insert, the lookup of
\* the new row, the response.
InsertPatient(s) ==
  /\ requests[s].pc = "insert"
  /\ requests[s].key = "patient"
  /\ LET id == generatePatientId(requests[s].val)
         patient == NewPatient(id, SharedPatientBody)
     IN IF \E p \in patients : p.id = patient.id
        THEN patients' = patients /\ resp' = Fault
        ELSE /\ patients' = patients \cup {patient}
             /\ resp' = IF getByIdThrows(<<id>>) THEN Fault ELSE ok
  /\ requests' = [requests EXCEPT ![s].pc = "idle"]
  /\ UNCHANGED <<checkins, invoices, invoice_items, item_seq, counters, now>>

\* The rest of POST /api/invoices on server s: createInvoice and the
\* response.
InsertInvoice(s) ==
  /\ requests[s].pc = "insert"
  /\ requests[s].key = "invoice"
  /\ LET ref == generateInvoiceRef(now, requests[s].val)
         inv == NewInvoice(ref, SharedInvoiceBody, {})
         saved == createInvoice(inv, LineItems(SharedInvoiceBody.items.a))
     IN /\ invoices' = saved.invoices
        /\ invoice_items' = saved.invoice_items
        /\ item_seq' = saved.item_seq
        /\ resp' = IF saved.fault # "" THEN Fault ELSE ok
  /\ requests' = [requests EXCEPT ![s].pc = "idle"]
  /\ UNCHANGED <<patients, checkins, counters, now>>

NextShared ==
  \/ \E s \in Servers, key \in {"patient", "invoice"} : Arrive(s, key)
  \/ \E s \in Servers : ReadCounter(s)
  \/ \E s \in Servers : IncrementCounter(s)
  \/ \E s \in Servers : InsertPatient(s)
  \/ \E s \in Servers : InsertInvoice(s)

---------------------------------------------------------------------------
(* The state after db.js has run on an empty database: empty tables, the   *)
(* counters seeded, no request answered yet.                               *)

Init ==
  /\ patients = {}
  /\ checkins = {}
  /\ invoices = {}
  /\ invoice_items = {}
  /\ item_seq = 0
  /\ counters = [invoice |-> InvoiceCounterStart,
                 patient |-> PatientCounterStart]
  /\ now = Calendar[1]
  /\ resp = [status |-> 0, success |-> FALSE]
  /\ requests = [s \in Servers |-> Idle]

Next ==
  \/ (\E id \in PatientIds : GetPatient(id)) /\ UNCHANGED requests
  \/ (\E body \in PostPatientBodies : PostPatient(body))
       /\ UNCHANGED requests
  \/ (\E id \in PatientIds, body \in PutPatientBodies : PutPatient(id, body))
       /\ UNCHANGED requests
  \/ (\E id \in PatientIds : DeletePatient(id)) /\ UNCHANGED requests
  \/ (\E id \in CheckinIds : GetCheckin(id)) /\ UNCHANGED requests
  \/ (\E body \in PostCheckinBodies, id \in NewCheckinIds :
        PostCheckin(body, id)) /\ UNCHANGED requests
  \/ (\E id \in CheckinIds, status \in PatchCheckinBodies :
        PatchCheckinStatus(id, status)) /\ UNCHANGED requests
  \/ (\E id \in CheckinIds : DeleteCheckin(id)) /\ UNCHANGED requests
  \/ (\E ref \in InvoiceRefs : GetInvoice(ref)) /\ UNCHANGED requests
  \/ (\E body \in PostInvoiceBodies : PostInvoice(body))
       /\ UNCHANGED requests
  \/ (\E ref \in InvoiceRefs, body \in PatchInvoiceBodies :
        PatchInvoiceStatus(ref, body)) /\ UNCHANGED requests
  \/ (\E ref \in InvoiceRefs : DeleteInvoice(ref)) /\ UNCHANGED requests
  \/ Tick /\ UNCHANGED requests

Spec == Init /\ [][Next]_vars

SpecShared == Init /\ [][NextShared]_vars


---------------------------------------------------------------------------
(* Properties.                                                             *)

Max(a, b) == IF a >= b THEN a ELSE b

\* A column that holds the whole number n.
IsNumber(v, n) == v = Num(n)

\* C1: every stored invoice with status Paid has paid_amount = total and
\* balance = 0, and every stored invoice with status Draft has
\* paid_amount = 0 and balance = total.
C1_StatusFixesAmounts ==
  \A i \in invoices :
    /\ i.status = Paid =>
         i.paid_amount = i.total /\ IsNumber(i.balance, 0)
    /\ i.status = Draft =>
         IsNumber(i.paid_amount, 0) /\ i.balance = i.total

\* C2: every stored invoice has total = subtotal - discount and
\* balance = max(0, total - paid_amount) (stated for the invoices whose
\* amounts are numbers; an amount that is not a finite number is stored as
\* NULL).
C2_TotalAndBalance ==
  \A i \in invoices :
    /\ (IsNum(i.subtotal) /\ IsNum(i.discount)) =>
         IsNumber(i.total, i.subtotal.n - i.discount.n)
    /\ (IsNum(i.total) /\ IsNum(i.paid_amount)) =>
         IsNumber(i.balance, Max(0, i.total.n - i.paid_amount.n))

\* The number an identifier ends with: the digits after its last '-'.
RECURSIVE LastSegment(_)
LastSegment(s) ==
  IF s = <<>> \/ s[Len(s)] = "-" THEN <<>>
  ELSE LastSegment(SubSeq(s, 1, Len(s) - 1)) \o <<s[Len(s)]>>

IssuedNumber(id) == DigitsValue(LastSegment(id.s))

\* What holds of the stored identifiers in every state: each carries a
\* counter value already issued, and no two rows share one.
C3_Issued ==
  /\ \A p \in patients :
       /\ SubSeq(p.id.s, 1, 6) = <<"P", "a", "C", "P", "C", "-">>
       /\ IssuedNumber(p.id) \in 10000..(counters["patient"] - 1)
  /\ \A i \in invoices :
       /\ SubSeq(i.ref.s, 1, 6) = <<"I", "N", ":", "0", "1", "-">>
       /\ IssuedNumber(i.ref) \in 1..(counters["invoice"] - 1)
  /\ \A p, q \in patients : p.id = q.id => p = q
  /\ \A i, j \in invoices : i.ref = j.ref => i = j

\* What holds of every step: a counter stays or grows by one, and a row
\* that is new carries the value its counter had, which the step uses up.
C3_Step ==
  /\ \A key \in {"patient", "invoice"} :
       counters'[key] \in {counters[key], counters[key] + 1}
  /\ \A p \in patients' :
       (\A q \in patients : q.id # p.id) =>
         /\ IssuedNumber(p.id) = counters["patient"]
         /\ counters'["patient"] = counters["patient"] + 1
  /\ \A i \in invoices' :
       (\A j \in invoices : j.ref # i.ref) =>
         /\ IssuedNumber(i.ref) = counters["invoice"]
         /\ counters'["invoice"] = counters["invoice"] + 1

\* C3: the values nextCounter issues for a key are strictly increasing and
\* distinct, from 10000 for 'patient' and 1 for 'invoice': every new patient
\* or invoice carries the current counter value, larger than the number of
\* every identifier issued before, and no two stored rows share an
\* identifier.
C3_IdsStrictlyIncrease == [](C3_Issued) /\ [][C3_Step]_vars

\* Two creates have stored PaCPC-10000 and PaCPC-10001.
C3_TwoPatients ==
  /\ \E p \in patients :
       p.id = Str(<<"P", "a", "C", "P", "C", "-", "1", "0", "0", "0", "0">>)
  /\ \E p \in patients :
       p.id = Str(<<"P", "a", "C", "P", "C", "-", "1", "0", "0", "0", "1">>)

\* C4: a POST /api/invoices step stores the header together with every one
\* of its line items, or it stores neither the header nor any line item.
C4_Step ==
  \A body \in PostInvoiceBodies :
    \/ invoices' = invoices /\ invoice_items' = invoice_items
    \/ ~PostInvoice(body)
    \/ \E inv \in invoices' \ invoices :
         /\ invoices' = invoices \cup {inv}
         /\ invoice_items \subseteq invoice_items'
         /\ \A it \in invoice_items' \ invoice_items :
              it.invoice_ref = inv.ref
         /\ Cardinality(invoice_items' \ invoice_items) = Len(body.items.a)

C4_CreateIsAllOrNothing == [][C4_Step]_vars

\* The first create was rolled back: the reference was issued, the item
\* sequence never moved, and nothing is stored.
C4_RolledBack ==
  /\ resp = Fault
  /\ counters["invoice"] = 2
  /\ item_seq = 0
  /\ invoices = {}
  /\ invoice_items = {}

\* A required text field that is absent or holds white space only, a
\* required value that is absent or empty, a list that is absent or empty.
IsBlank(v) ==
  \/ v \in {Undefined, Null}
  \/ IsString(v) /\ \A j \in 1..Len(v.s) : v.s[j] = " "
IsMissing(v) == v \in {Undefined, Null, Str(<<>>)}
HasNoItems(v) == v \in {Undefined, Null, Arr(<<>>)}

Rejected == resp' = [status |-> 400, success |-> FALSE] /\ store' = store

\* C5: a request that fails validation is answered 400 with success false
\* and leaves every table and both counters as they were.
C5_Step ==
  /\ \A body \in PostPatientBodies :
       (IsBlank(body.name) \/ IsBlank(body.owner_name)) /\ PostPatient(body)
         => Rejected
  /\ \A body \in PostCheckinBodies, id \in NewCheckinIds :
       (IsBlank(body.doctor) \/ IsMissing(body.date)) /\ PostCheckin(body, id)
         => Rejected
  /\ \A body \in PostInvoiceBodies :
       (IsBlank(body.owner_name) \/ IsMissing(body.date)
          \/ HasNoItems(body.items)) /\ PostInvoice(body)
         => Rejected
  /\ \A id \in CheckinIds, status \in PatchCheckinBodies :
       status \notin {Str(<<"o", "p", "e", "n">>), Str(<<"d", "o", "n", "e">>)}
         /\ PatchCheckinStatus(id, status)
         => Rejected

C5_InvalidRequestsWriteNothing == [][C5_Step]_vars

\* A request was rejected after a patient had been stored.
C5_RejectedAfterCreate ==
  /\ resp = [status |-> 400, success |-> FALSE]
  /\ Cardinality(patients) = 1
  /\ counters["patient"] = 10001


\* C9: PATCH /api/invoices/:ref/status on a stored invoice: status Paid
\* forces paid_amount = total and balance = 0; status Draft forces
\* paid_amount = 0 and balance = total; any other status stores the status
\* with the supplied paid_amount, or the stored one when none is supplied,
\* and balance = max(0, total - paid_amount) (stated for a paid_amount that
\* is a number).  Subtotal, discount, total, every other column, every
\* other invoice and the line items stay as they were.
C9_Step ==
  \A ref \in InvoiceRefs, body \in PatchInvoiceBodies :
    ((\E i \in invoices : i.ref = Str(ref)) /\ PatchInvoiceStatus(ref, body)) =>
      LET old == CHOOSE i \in invoices : i.ref = Str(ref)
          new == CHOOSE i \in invoices' : i.ref = Str(ref)
      IN /\ \E i \in invoices' : i.ref = Str(ref)
         /\ invoices' \ {new} = invoices \ {old}
         /\ invoice_items' = invoice_items
         /\ [new EXCEPT !.status = old.status,
                        !.paid_amount = old.paid_amount,
                        !.balance = old.balance] = old
         /\ body.status = Paid =>
              /\ new.status = Paid
              /\ new.paid_amount = old.total
              /\ IsNumber(new.balance, 0)
         /\ body.status = Draft =>
              /\ new.status = Draft
              /\ IsNumber(new.paid_amount, 0)
              /\ new.balance = old.total
         /\ (IsString(body.status) /\ body.status \notin {Paid, Draft}) =>
              /\ new.status = body.status
              /\ IsNum(body.paid_amount) => new.paid_amount = body.paid_amount
              /\ body.paid_amount = Undefined =>
                   new.paid_amount = old.paid_amount
              /\ (IsNum(new.paid_amount) /\ IsNum(old.total)) =>
                   IsNumber(new.balance,
                            Max(0, old.total.n - new.paid_amount.n))

NotFoundUntouched ==
  resp' = [status |-> 404, success |-> FALSE] /\ store' = store

\* C6: a get, update or delete that names an id no row has is answered 404
\* with success false and leaves the store as it was.
C6_Step ==
  /\ \A id \in PatientIds :
       (\A p \in patients : p.id # Str(id)) =>
         /\ GetPatient(id) => NotFoundUntouched
         /\ \A body \in PutPatientBodies :
              PutPatient(id, body) => NotFoundUntouched
         /\ DeletePatient(id) => NotFoundUntouched
  /\ \A id \in CheckinIds :
       (\A c \in checkins : c.id # Str(id)) =>
         /\ GetCheckin(id) => NotFoundUntouched
         /\ \A status \in CheckinStatuses :
              PatchCheckinStatus(id, status) => NotFoundUntouched
         /\ DeleteCheckin(id) => NotFoundUntouched
  /\ \A ref \in InvoiceRefs :
       (\A i \in invoices : i.ref # Str(ref)) =>
         /\ GetInvoice(ref) => NotFoundUntouched
         /\ \A body \in PatchInvoiceBodies :
              PatchInvoiceStatus(ref, body) => NotFoundUntouched
         /\ DeleteInvoice(ref) => NotFoundUntouched

C6_UnknownIdIsNotFound == [][C6_Step]_vars

\* C7: DELETE /api/patients/:id on a stored patient succeeds, removes the
\* patient and its check-ins, and leaves its invoices in place with a null
\* patient reference and their line items untouched.
C7_Step ==
  \A id \in PatientIds :
    (DeletePatient(id) /\ \E p \in patients : p.id = Str(id)) =>
      /\ resp' = [status |-> 200, success |-> TRUE]
      /\ patients' = {p \in patients : p.id # Str(id)}
      /\ checkins' = {c \in checkins : c.patient_id # Str(id)}
      /\ invoices' = {IF i.patient_id = Str(id)
                      THEN [i EXCEPT !.patient_id = Null] ELSE i :
                        i \in invoices}
      /\ invoice_items' = invoice_items

C7_DeletePatientCascades == [][C7_Step]_vars

\* C8: PUT /api/patients/:id on a stored patient succeeds, sets each field
\* the body supplies to the supplied value (weight to its number), and
\* leaves each field the body omits, and every other row, as it was.
C8_Step ==
  \A id \in PatientIds, body \in PutPatientBodies :
    (PutPatient(id, body) /\ \E p \in patients : p.id = Str(id)) =>
      LET old == CHOOSE p \in patients : p.id = Str(id)
          new == CHOOSE p \in patients' : p.id = Str(id)
      IN /\ resp' = [status |-> 200, success |-> TRUE]
         /\ \E p \in patients' : p.id = Str(id)
         /\ patients' \ {new} = patients \ {old}
         /\ \A f \in {"name", "type", "owner_name", "phone"} :
              new[f] = IF body[f] = Undefined THEN old[f] ELSE body[f]
         /\ body.weight = Undefined => new.weight = old.weight
         /\ body.weight # Undefined => new.weight = ParseFloat(body.weight)

C8_PutIsPartialUpdate == [][C8_Step]_vars

\* C10: a check-in or an invoice created with the patient_id of a stored
\* patient is stored with that patient's name and owner (and, for the
\* invoice, type and phone) copied onto it.
C10_Step ==
  /\ \A body \in PostCheckinBodies, id \in NewCheckinIds :
       \A p \in patients :
         (PostCheckin(body, id) /\ body.patient_id = p.id
            /\ NonBlank(body.doctor) /\ Truthy(body.date)) =>
           \E c \in checkins' \ checkins :
             /\ c.patient_id = p.id
             /\ c.patient_name = p.name
             /\ c.owner_name = p.owner_name
  /\ \A body \in PostInvoiceBodies :
       \A p \in patients :
         (PostInvoice(body) /\ body.patient_id = p.id
            /\ NonBlank(body.owner_name) /\ Truthy(body.date)
            /\ IsArray(body.items) /\ body.items.a # <<>>) =>
           \E i \in invoices' \ invoices :
             /\ i.patient_id = p.id
             /\ i.patient_name = p.name
             /\ i.patient_type = p.type
             /\ i.phone = p.phone

C10_PatientFieldsAreCopied == [][C10_Step]_vars


\* C11: a PUT /api/patients/:id step leaves every stored check-in, every
\* stored invoice and every line item as it was: the names a check-in or
\* an invoice carries are a snapshot.
C11_Step ==
  \A id \in PatientIds, body \in PutPatientBodies :
    \/ ~PutPatient(id, body)
    \/ /\ checkins' = checkins
       /\ invoices' = invoices
       /\ invoice_items' = invoice_items

C12_Step ==
  \A s \in Servers :
    LET r == requests[s]
        after == requests'[s]
    IN /\ (r.pc = "read" /\ after.pc = "update") =>
            /\ after.val = counters[r.key]
            /\ counters' = counters
            /\ \A t \in Servers \ {s} :
                 (requests[t].pc = "update" /\ requests[t].key = r.key
                    /\ requests[t].val = counters[r.key])
                   => after.val = requests[t].val
       /\ (r.pc = "update" /\ after.pc = "insert") =>
            /\ after.val = r.val
            /\ counters'[r.key] = counters[r.key] + 1

C13_StatusIsOneOfThree ==
  \A i \in invoices : i.status \in {Draft, Paid, Outstanding}


Gross(it) == it.quantity.n * it.unit_price.n

\* The sums of quantity * unit_price and of discount over a set of rows.
RECURSIVE SumGross(_)
SumGross(rows) ==
  IF rows = {} THEN 0
  ELSE LET r == CHOOSE x \in rows : TRUE
       IN Gross(r) + SumGross(rows \ {r})

RECURSIVE SumDiscount(_)
SumDiscount(rows) ==
  IF rows = {} THEN 0
  ELSE LET r == CHOOSE x \in rows : TRUE
       IN r.discount.n + SumDiscount(rows \ {r})

\* C14: every stored line item has total = quantity * unit_price -
\* discount, and every stored invoice has subtotal = the sum of quantity *
\* unit_price over its stored line items and discount = the sum of their
\* discounts.
C14_LineItemArithmetic ==
  \A i \in invoices :
    LET items == getItems(i.ref.s)
    IN /\ \A it \in items :
            /\ IsNum(it.quantity) /\ IsNum(it.unit_price)
            /\ IsNum(it.discount)
            /\ IsNumber(it.total, Gross(it) - it.discount.n)
       /\ IsNumber(i.subtotal, SumGross(items))
       /\ IsNumber(i.discount, SumDiscount(items))


\* What holds of the references in every state.
C15_References ==
  /\ \A c \in checkins :
       c.patient_id # Null => \E p \in patients : p.id = c.patient_id
  /\ \A i \in invoices :
       i.patient_id # Null => \E p \in patients : p.id = i.patient_id
  /\ \A it \in invoice_items : \E i \in invoices : i.ref = it.invoice_ref

\* What holds of every step: a create that names a patient_id no patient
\* has stores nothing, and a delete of an invoice leaves none of its line
\* items.
C15_Step ==
  /\ \A body \in PostCheckinBodies, id \in NewCheckinIds :
       (Truthy(body.patient_id)
          /\ (\A p \in patients : p.id # body.patient_id)
          /\ PostCheckin(body, id))
         => checkins' = checkins
  /\ \A body \in PostInvoiceBodies :
       (Truthy(body.patient_id)
          /\ (\A p \in patients : p.id # body.patient_id)
          /\ PostInvoice(body))
         => invoices' = invoices /\ invoice_items' = invoice_items
  /\ \A ref \in InvoiceRefs :
       DeleteInvoice(ref) =>
         \A it \in invoice_items' : it.invoice_ref # Str(ref)

\* C15: referential integrity: every check-in and every invoice with a
\* patient_id references a stored patient, a create naming a patient_id
\* that matches no patient stores nothing, every line item references a
\* stored invoice, and deleting an invoice removes all its line items.
C15_ReferentialIntegrity == [](C15_References) /\ [][C15_Step]_vars

\* An invoice was stored with its two line items and then deleted: the
\* item sequence has moved and no invoice and no line item is left.
C15_InvoiceDeletedWithItems ==
  /\ item_seq = 2
  /\ counters["invoice"] = 2
  /\ invoices = {}
  /\ invoice_items = {}
  /\ resp = [status |-> 200, success |-> TRUE]

=============================================================================
